---- MODULE Spec2Model ----
(***************************************************************************)
(* Model of the architecture.log persistence layer: the localStorage       *)
(* Record Store (DataService), the IndexedDB Blob Store, the migration of  *)
(* inline base64 images (migrateOldData) and the object-URL cache          *)
(* (getImageUrl / revokeImageUrl).                                         *)
(***************************************************************************)
EXTENDS Integers, Sequences, FiniteSets, Bags, TLC

VARIABLES
    users,      \* localStorage 'architecture_log_users'
    posts,      \* localStorage 'architecture_log_posts'
    comments,   \* localStorage 'architecture_log_comments'
    likes,      \* localStorage 'architecture_log_likes'
    session,    \* localStorage 'current_user' (NULL when absent)
    clock,      \* Date.now(), never decreasing
    postLog,    \* history: initial posts followed by every post upserted
    userLog,    \* history: initial users followed by every user upserted
    last,       \* history: the last DataService call and the state before it
    before,     \* history: the call before `last` and the state before it
    blobStore,  \* IndexedDB object store 'images': image id -> Blob content
    nextImage,  \* number of image ids generated so far
    mig,        \* migrateOldData: position and local variables
    pass,       \* history of the migration passes
    currentUser,\* script.js `let currentUser`
    listening,  \* setupEventListeners has run
    uploads,    \* handleUploadForm invocations suspended in saveImageBlob
    nextPost,   \* number of posts created by handleUploadForm
    imageUrlCache, \* script.js `const imageUrlCache = new Map()`
    liveUrls,   \* object URLs created and not revoked, with the id each was made for
    nextUrl,    \* number of object URLs created so far
    calls,      \* getImageUrl invocations suspended in getImageBlob
    urlHist,    \* history of the object URLs
    blobLog,    \* history: the content put under each image id since the last clear
    feed,       \* the children of the #feedPosts container, in document order
    renders,    \* renderFeed invocations suspended in createPostCard
    filter      \* value of the #categoryFilter select ("" = all categories)

blobVars == <<blobStore, nextImage>>
migVars == <<mig, pass>>
upVars == <<currentUser, listening, uploads, nextPost>>
cacheVars == <<imageUrlCache, liveUrls, nextUrl, calls, urlHist>>
feedVars == <<feed, renders, filter>>
appVars == <<blobVars, migVars, upVars, cacheVars, blobLog, feedVars>>

vars == <<users, posts, comments, likes, session, clock,
          postLog, userLog, last, before, appVars>>

\* JSON null / an absent value
NULL == [null |-> TRUE]

----------------------------------------------------------------------------
(* Bounds of the model *)

MaxLog == 5         \* records in the two upsert histories together
MaxClock == 1       \* last clock value
MaxComments == 2    \* comments in an initial comment collection of SpecDelete
MaxLikes == 3       \* likes in an initial like collection of SpecDelete
MaxLegacyPosts == 2 \* posts in a stored collection found by the migration
MaxImages == 3      \* image entries in such a collection, all posts together
MaxRuns == 2        \* migration passes (page loads) in one behaviour
MaxAppImages == 2   \* image entries of the stored post found by init in SpecApp
MaxUploads == 1     \* handleUploadForm invocations in one behaviour
MaxFiles == 1       \* files selected for one upload
MaxStarted == 2     \* uploads, logins and image resolutions started after init
MaxLogins == 3      \* handleLogin submissions with a name in one behaviour
MaxPuts == 3        \* saveImageBlob calls that store a Blob in one behaviour
MaxResolves == 2    \* getImageUrl invocations that reach getImageBlob in one behaviour

----------------------------------------------------------------------------
(* Input domains *)

PostIds == {"post_1", "post_2"}
UserIds == {"user_1", "user_2"}
Notes == {"a", "b"}

User(id, bio) == [id |-> id, username |-> id, bio |-> bio]
Post(id, note) == [id |-> id, userId |-> "user_1", note |-> note, images |-> <<>>]
Comment(id, postId) == [id |-> id, postId |-> postId]

UpsertPostIds == PostIds \cup {"post_3"}
UpsertPosts == {Post(id, n) : id \in UpsertPostIds, n \in Notes}
UpsertUsers == {User(id, b) : id \in UserIds, b \in Notes}

DefaultUser == User("user_1", "a")

----------------------------------------------------------------------------
(* Array helpers *)

\* Array.prototype.findIndex over the set of (1-based) positions whose element
\* matches: the 0-based index of the first match, or -1
findIndex(matching) ==
    IF matching = {} THEN -1
    ELSE (CHOOSE k \in matching : \A m \in matching : k <= m) - 1

\* the positions of arr whose element has field f equal to v
where(arr, f, v) == {k \in 1..Len(arr) : arr[k][f] = v}

\* arr[index] = value
setAt(arr, index, value) == [arr EXCEPT ![index + 1] = value]

\* arr.splice(index, 1)
splice(arr, index) ==
    [k \in 1..(Len(arr) - 1) |-> IF k <= index THEN arr[k] ELSE arr[k + 1]]

\* a postId argument that passes `if (postId)`
Truthy(x) == x /= ""

----------------------------------------------------------------------------
(* DataService *)

saveUserAppendOnly(us, user) == Append(us, user)
saveUser(us, user) ==
    LET existingIndex == findIndex(where(us, "id", user.id))
    IN  IF existingIndex >= 0 THEN setAt(us, existingIndex, user)
        ELSE Append(us, user)

savePostAppendOnly(ps, post) == Append(ps, post)
savePost(ps, post) ==
    LET existingIndex == findIndex(where(ps, "id", post.id))
    IN  IF existingIndex >= 0 THEN setAt(ps, existingIndex, post)
        ELSE Append(ps, post)

\* mutant of deletePostLikes: the cascade filters likes by the wrong field
deletePostLikesByUser(ls, postId) == SelectSeq(ls, LAMBDA l : l.userId /= postId)

deletePostPosts(ps, postId) == SelectSeq(ps, LAMBDA p : p.id /= postId)
deletePostComments(cs, postId) == SelectSeq(cs, LAMBDA c : c.postId /= postId)
deletePostLikes(ls, postId) == SelectSeq(ls, LAMBDA l : l.postId /= postId)

getLikes(ls, postId) ==
    IF Truthy(postId) THEN SelectSeq(ls, LAMBDA l : l.postId = postId) ELSE ls

\* mutants of toggleLike
toggleLikeAlwaysAppend(ls, postId, userId, now) ==
    Append(ls, [postId |-> postId, userId |-> userId, createdAt |-> now])

toggleLikeSpliceNext(ls, postId, userId, now) ==
    LET existingIndex ==
            findIndex(where(ls, "postId", postId) \cap where(ls, "userId", userId))
    IN  IF existingIndex >= 0
        THEN splice(ls, IF existingIndex + 1 < Len(ls) THEN existingIndex + 1
                        ELSE existingIndex)
        ELSE Append(ls, [postId |-> postId, userId |-> userId, createdAt |-> now])

toggleLikeByPostOnly(ls, postId, userId, now) ==
    LET existingIndex == findIndex(where(ls, "postId", postId))
    IN  IF existingIndex >= 0 THEN splice(ls, existingIndex)
        ELSE Append(ls, [postId |-> postId, userId |-> userId, createdAt |-> now])

toggleLike(ls, postId, userId, now) ==
    LET existingIndex ==
            findIndex(where(ls, "postId", postId) \cap where(ls, "userId", userId))
    IN  IF existingIndex >= 0 THEN splice(ls, existingIndex)
        ELSE Append(ls, [postId |-> postId, userId |-> userId, createdAt |-> now])

isLiked(ls, postId, userId) ==
    \E k \in 1..Len(getLikes(ls, postId)) : getLikes(ls, postId)[k].userId = userId

----------------------------------------------------------------------------
(* DataService calls as steps.  Each is synchronous, hence one atomic step. *)

SavePost(post) ==
    /\ posts' = savePost(posts, post)
    /\ UNCHANGED <<users, comments, likes, session, clock>>

SaveUser(user) ==
    /\ users' = saveUser(users, user)
    /\ UNCHANGED <<posts, comments, likes, session, clock>>

SaveComment(comment) ==
    /\ comments' = Append(comments, comment)
    /\ UNCHANGED <<users, posts, likes, session, clock>>

\* new Date().toISOString() reads a clock that has not gone back since the
\* previous call
ToggleLike(postId, userId) ==
    \E now \in {clock, clock + 1} \cap (0..MaxClock) :
        /\ clock' = now
        /\ likes' = toggleLike(likes, postId, userId, now)
        /\ UNCHANGED <<users, posts, comments, session>>

DeletePost(postId) ==
    /\ posts' = deletePostPosts(posts, postId)
    /\ comments' = deletePostComments(comments, postId)
    /\ likes' = deletePostLikes(likes, postId)
    /\ UNCHANGED <<users, session, clock>>

SetCurrentUser(user) ==
    /\ session' = user
    /\ users' = saveUser(users, user)
    /\ UNCHANGED <<posts, comments, likes, clock>>

----------------------------------------------------------------------------
(* Image references and the Blob Store *)

\* 'data:image...' strings: inline base64 data
Inline(payload) == [prefix |-> "data:image", body |-> payload]
\* `img_${Date.now()}_${random}`: the n-th identifier generated
ImageId(n) == [prefix |-> "img_", body |-> ToString(n)]
\* any other string
Unknown(text) == [prefix |-> "", body |-> text]

isInline(imageData) == imageData.prefix = "data:image"
isImageId(imageData) == imageData.prefix = "img_"

\* fetch(dataUrl).blob(): the bytes a base64 payload decodes to; fetch rejects
\* a payload that is not base64
Decodable(payload) == payload \in {"QUJD", "REVG"}
Decode(payload) == IF payload = "QUJD" THEN "ABC" ELSE "DEF"

\* a store.put that always writes under the first identifier
putBlobFirstKey(store, imageId, file) ==
    [k \in DOMAIN store \cup {ImageId(1)} |-> IF k = ImageId(1) THEN file ELSE store[k]]

\* store.put(file, imageId)
putBlob(store, imageId, file) ==
    [k \in DOMAIN store \cup {imageId} |-> IF k = imageId THEN file ELSE store[k]]

EmptyStore == [k \in {} |-> ""]

\* a page whose script has just been loaded
InitPage ==
    /\ currentUser = NULL
    /\ listening = FALSE
    /\ uploads = <<>>
    /\ nextPost = 0
    /\ imageUrlCache = EmptyStore
    /\ liveUrls = {}
    /\ nextUrl = 0
    /\ calls = EmptyBag
    /\ urlHist = [revoked |-> {}, overlapped |-> {}, released |-> {}, returned |-> {},
                  cleared |-> {}, clearedBy |-> ""]
    /\ blobLog = EmptyStore
    /\ feed = <<>>
    /\ renders = <<>>
    /\ filter = ""

\* no blob stored, no migration running
InitIdleApp ==
    /\ blobStore = EmptyStore
    /\ nextImage = 0
    /\ mig = [pc |-> "idle"]
    /\ pass = NULL
    /\ InitPage


----------------------------------------------------------------------------
(* migrateOldData, one step per loop iteration.  init awaits it before any  *)
(* listener is registered, so no other handler runs between its steps.      *)

\* post.images && Array.isArray(post.images)
hasImages(post) == "images" \in DOMAIN post

\* post.image && typeof post.image === 'string' && post.image.startsWith('data:image')
hasLegacyImage(post) == "image" \in DOMAIN post /\ isInline(post.image)

\* mutant of pushed: an image whose conversion failed is dropped
pushedDropFailed(imageData, converted, imageId) ==
    IF isInline(imageData)
    THEN IF converted THEN <<imageId>> ELSE <<>>
    ELSE <<imageData>>

\* mutant of pushed: the inline data is pushed even after it was stored
pushedKeepInline(imageData, converted, imageId) == <<imageData>>

\* mutant of pushed: an entry of unknown format is dropped
pushedDropUnknown(imageData, converted, imageId) ==
    IF isInline(imageData)
    THEN IF converted THEN <<imageId>> ELSE <<imageData>>
    ELSE IF isImageId(imageData) THEN <<imageData>>
    ELSE <<>>

\* what the inner loop pushes on newImageIds for one entry
pushed(imageData, converted, imageId) ==
    IF isInline(imageData)
    THEN IF converted THEN <<imageId>> ELSE <<imageData>>
    ELSE IF isImageId(imageData) THEN <<imageData>>
    ELSE <<imageData>>

\* a legacy migration that forgets `delete post.image`
legacyMigratedKeepField(post, imageId) ==
    [f \in DOMAIN post \cup {"images"} |->
        IF f = "images" THEN <<imageId>> ELSE post[f]]

\* post.images = [imageId]; delete post.image
legacyMigrated(post, imageId) ==
    [f \in (DOMAIN post \ {"image"}) \cup {"images"} |->
        IF f = "images" THEN <<imageId>> ELSE post[f]]

MigrateStart ==
    /\ mig.pc \in {"idle", "done"}
    /\ pass.run < MaxRuns
    /\ mig' = [pc |-> "loop", posts |-> posts, i |-> 1, j |-> 1,
               newImageIds |-> <<>>, migrationCount |-> 0]
    /\ pass' = [run |-> pass.run + 1, orig |-> posts, failed |-> {}, puts |-> 0,
                putFailed |-> FALSE,
                prevPosts |-> posts, prevFailed |-> pass.failed /= {},
                writes |-> 0, blobs |-> Cardinality(DOMAIN blobStore),
                writeFailed |-> FALSE]
    /\ UNCHANGED <<posts, blobVars>>

\* one iteration of the loop over post.images: fetch, blob, saveImageBlob
MigrateImage ==
    /\ mig.pc = "loop"
    /\ mig.i <= Len(mig.posts)
    /\ hasImages(mig.posts[mig.i])
    /\ mig.j <= Len(mig.posts[mig.i].images)
    /\ \E putOk \in BOOLEAN :
        LET imageData == mig.posts[mig.i].images[mig.j]
            imageId == ImageId(nextImage + 1)
            saved == isInline(imageData) /\ Decodable(imageData.body)
            converted == saved /\ putOk
        IN  /\ saved \/ putOk
            /\ blobStore' = IF converted
                            THEN putBlob(blobStore, imageId, Decode(imageData.body))
                            ELSE blobStore
            /\ nextImage' = IF converted THEN nextImage + 1 ELSE nextImage
            /\ mig' = [mig EXCEPT
                    !.newImageIds = @ \o pushed(imageData, converted, imageId),
                    !.migrationCount = IF converted THEN @ + 1 ELSE @,
                    !.j = @ + 1]
            /\ pass' = [pass EXCEPT
                    !.failed = IF isInline(imageData) /\ ~converted
                               THEN @ \cup {<<mig.i, mig.j>>} ELSE @,
                    !.puts = IF saved THEN @ + 1 ELSE @,
                    !.putFailed = @ \/ (saved /\ ~putOk)]
    /\ UNCHANGED posts

\* post.images = newImageIds, then the next post
MigratePostImages ==
    /\ mig.pc = "loop"
    /\ mig.i <= Len(mig.posts)
    /\ hasImages(mig.posts[mig.i])
    /\ mig.j > Len(mig.posts[mig.i].images)
    /\ mig' = [mig EXCEPT !.posts[mig.i].images = mig.newImageIds,
                          !.i = @ + 1, !.j = 1, !.newImageIds = <<>>]
    /\ UNCHANGED <<posts, blobVars, pass>>

\* the legacy single image of a post without an images array
MigrateLegacy ==
    /\ mig.pc = "loop"
    /\ mig.i <= Len(mig.posts)
    /\ ~hasImages(mig.posts[mig.i])
    /\ hasLegacyImage(mig.posts[mig.i])
    /\ \E putOk \in BOOLEAN :
        LET post == mig.posts[mig.i]
            imageId == ImageId(nextImage + 1)
            saved == Decodable(post.image.body)
            converted == saved /\ putOk
        IN  /\ saved \/ putOk
            /\ blobStore' = IF converted
                            THEN putBlob(blobStore, imageId, Decode(post.image.body))
                            ELSE blobStore
            /\ nextImage' = IF converted THEN nextImage + 1 ELSE nextImage
            /\ mig' = [mig EXCEPT
                    !.posts[mig.i] = IF converted THEN legacyMigrated(post, imageId)
                                     ELSE post,
                    !.migrationCount = IF converted THEN @ + 1 ELSE @,
                    !.i = @ + 1]
            /\ pass' = [pass EXCEPT
                    !.failed = IF converted THEN @ ELSE @ \cup {<<mig.i, 0>>},
                    !.puts = IF saved THEN @ + 1 ELSE @,
                    !.putFailed = @ \/ (saved /\ ~putOk)]
    /\ UNCHANGED posts

\* a post with neither an images array nor an inline legacy image
MigrateSkip ==
    /\ mig.pc = "loop"
    /\ mig.i <= Len(mig.posts)
    /\ ~hasImages(mig.posts[mig.i])
    /\ ~hasLegacyImage(mig.posts[mig.i])
    /\ mig' = [mig EXCEPT !.i = @ + 1]
    /\ UNCHANGED <<posts, blobVars, pass>>

\* a pass that writes the posts back whatever it migrated
shouldWriteAlways(migrationCount) == TRUE

\* if (migrationCount > 0)
shouldWrite(migrationCount) == migrationCount > 0

\* if (migrationCount > 0) localStorage.setItem('architecture_log_posts', ...)
MigrateFinish ==
    /\ mig.pc = "loop"
    /\ mig.i > Len(mig.posts)
    /\ posts' = IF shouldWrite(mig.migrationCount) THEN mig.posts ELSE posts
    /\ mig' = [pc |-> "done"]
    /\ pass' = [pass EXCEPT !.writes = IF shouldWrite(mig.migrationCount) THEN @ + 1 ELSE @]
    /\ UNCHANGED blobVars

----------------------------------------------------------------------------
(* init after the migration, and handleUploadForm.  A handler runs without  *)
(* interruption up to its next await.                                       *)

\* currentUser = DataService.getCurrentUser(); setupEventListeners()
\* an init that does not wait for migrateOldData
resumesAtOnce(pc) == TRUE

\* await migrateOldData(): init goes on when the promise has resolved
resumes(pc) == pc = "done"

InitContinue ==
    /\ resumes(mig.pc)
    /\ ~listening
    /\ currentUser' = session
    /\ listening' = TRUE
    /\ UNCHANGED <<uploads, nextPost>>

\* the first n files the user selected
Selection(n) == [k \in 1..n |-> "F" \o ToString(k)]

\* 'post_' + Date.now() + '_' + random: the n-th identifier generated
NewPostId(n) == "post_new" \o ToString(n)

\* mutant of uploadedRef: the file's data is kept inline in the post
uploadedRefInline(file, imageId) == Inline(file)

\* imageIds.push(imageId)
uploadedRef(file, imageId) == imageId

\* the post object handleUploadForm creates
postAt(id, user, imageIds, now) ==
    [id |-> id, userId |-> user.id, note |-> "a", images |-> imageIds,
     category |-> "house", createdAt |-> now]

\* createdAt: new Date().toISOString()
newPost(id, user, imageIds) == postAt(id, user, imageIds, clock)

\* submit with n files selected: validation, then the first saveImageBlob;
\* with no file selected the post is saved at once
UploadSubmitFiles(n) ==
    /\ listening
    /\ currentUser /= NULL
    /\ nextPost + Len(uploads) < MaxUploads
    /\ IF n = 0
       THEN /\ posts' = savePost(posts, newPost(NewPostId(nextPost + 1),
                                                currentUser, <<>>))
            /\ nextPost' = nextPost + 1
            /\ UNCHANGED uploads
       ELSE /\ uploads' = Append(uploads,
                                 [files |-> Selection(n), imageIds |-> <<>>,
                                  selected |-> Selection(n), stored |-> <<>>])
            /\ UNCHANGED <<posts, nextPost>>
    /\ UNCHANGED <<blobVars, currentUser, listening>>

UploadSubmit == \E n \in 0..MaxFiles : UploadSubmitFiles(n)

\* mutant of collected: the identifier is pushed in the catch branch too
collectedOnFailure(imageIds, putOk, ref) == Append(imageIds, ref)

\* try { imageId = await saveImageBlob(file); imageIds.push(imageId) }
\* catch { continue with the other images }
collected(imageIds, putOk, ref) == IF putOk THEN Append(imageIds, ref) ELSE imageIds

\* a saveImageBlob settles: the id is pushed or the failure is skipped; then
\* the next file, or after the last one the post is created and saved.
\* `selected` and `stored` are history: the files the loop iterates and the
\* identifiers the successful puts returned, each with its file
UploadResume ==
    \E k \in 1..Len(uploads), putOk \in BOOLEAN :
        LET file == Head(uploads[k].files)
            rest == Tail(uploads[k].files)
            imageId == ImageId(nextImage + 1)
            imageIds == collected(uploads[k].imageIds, putOk, uploadedRef(file, imageId))
            stored == IF putOk
                      THEN Append(uploads[k].stored, [file |-> file, id |-> imageId])
                      ELSE uploads[k].stored
        IN  /\ blobStore' = IF putOk THEN putBlob(blobStore, imageId, file)
                            ELSE blobStore
            /\ nextImage' = IF putOk THEN nextImage + 1 ELSE nextImage
            /\ IF rest = <<>>
               THEN /\ posts' = savePost(posts, newPost(NewPostId(nextPost + 1),
                                                        currentUser, imageIds))
                    /\ nextPost' = nextPost + 1
                    /\ uploads' = SubSeq(uploads, 1, k - 1)
                                    \o SubSeq(uploads, k + 1, Len(uploads))
               ELSE /\ uploads' = [uploads EXCEPT
                                    ![k] = [files |-> rest, imageIds |-> imageIds,
                                            selected |-> uploads[k].selected,
                                            stored |-> stored]]
                    /\ UNCHANGED <<posts, nextPost>>
            /\ UNCHANGED <<currentUser, listening>>

----------------------------------------------------------------------------
(* SpecUpsert: sequences of upserts on the post and user collections *)

\* the sequences over S of length at most n whose identifiers are distinct
DistinctSeqs(S, n) ==
    {q \in UNION {[1..m -> S] : m \in 0..n} :
        \A j, k \in 1..Len(q) : j /= k => q[j].id /= q[k].id}

InitUpsert ==
    /\ InitIdleApp
    /\ posts \in DistinctSeqs(UpsertPosts, 2)
    /\ users \in DistinctSeqs(UpsertUsers, 1)
    /\ comments = <<>>
    /\ likes = <<>>
    /\ session = NULL
    /\ clock = 0
    /\ postLog = posts
    /\ userLog = users
    /\ last = NULL
    /\ before = NULL

LogHasRoom == Len(postLog) + Len(userLog) < MaxLog

UpsertPost ==
    \E post \in UpsertPosts :
        /\ LogHasRoom
        /\ SavePost(post)
        /\ postLog' = Append(postLog, post)
        /\ UNCHANGED <<userLog, last, before, appVars>>

UpsertUser ==
    \E user \in UpsertUsers :
        /\ LogHasRoom
        /\ SaveUser(user)
        /\ userLog' = Append(userLog, user)
        /\ UNCHANGED <<postLog, last, before, appVars>>

UpsertSession ==
    \E user \in UpsertUsers :
        /\ LogHasRoom
        /\ SetCurrentUser(user)
        /\ userLog' = Append(userLog, user)
        /\ UNCHANGED <<postLog, last, before, appVars>>

NextUpsert == UpsertPost \/ UpsertUser \/ UpsertSession

SpecUpsert == InitUpsert /\ [][NextUpsert]_vars

\* the identifiers of log, each once, in the order of their first occurrence
RECURSIVE FirstOccurrences(_)
FirstOccurrences(log) ==
    IF log = <<>> THEN <<>>
    ELSE LET front == SubSeq(log, 1, Len(log) - 1)
             id == log[Len(log)].id
         IN  IF \E k \in 1..Len(front) : front[k].id = id
             THEN FirstOccurrences(front)
             ELSE Append(FirstOccurrences(front), id)

\* the record most recently logged under id
Latest(log, id) ==
    log[CHOOSE k \in 1..Len(log) :
            log[k].id = id /\ \A m \in (k + 1)..Len(log) : log[m].id /= id]

ReadBack(log) ==
    [k \in 1..Len(FirstOccurrences(log)) |-> Latest(log, FirstOccurrences(log)[k])]

(* C1: after any sequence of upserts on a collection that started with      *)
(* distinct identifiers, the collection read back holds exactly one record  *)
(* per distinct identifier, each the value most recently upserted for it,   *)
(* in the order in which the identifiers first occurred.                    *)
C1_UpsertReadBack ==
    /\ posts = ReadBack(postLog)
    /\ users = ReadBack(userLog)

\* an identifier of the initial collection was upserted again with another
\* value after a new identifier had been appended
C1_Witness ==
    /\ Len(postLog) >= 4
    /\ Len(posts) = 3
    /\ posts[1] /= postLog[1]
    /\ posts[3] = postLog[3]
    /\ postLog[4].id = postLog[1].id

----------------------------------------------------------------------------
(* History of DataService calls *)

\* the call being made and the collections it finds
Call(op, postId, userId) ==
    [op |-> op, postId |-> postId, userId |-> userId,
     posts |-> posts, comments |-> comments, likes |-> likes,
     users |-> users, session |-> session]

Remember(op, postId, userId) ==
    /\ last' = Call(op, postId, userId)
    /\ before' = last
    /\ UNCHANGED <<postLog, userLog, appVars>>

----------------------------------------------------------------------------
(* SpecLikes: the Like collection under toggleLike and deletePost, from the *)
(* state DataService.init leaves                                            *)

InitLikes ==
    /\ InitIdleApp
    /\ users = <<DefaultUser>>
    /\ posts = <<>>
    /\ comments = <<>>
    /\ likes = <<>>
    /\ session = NULL
    /\ clock = 0
    /\ postLog = <<>>
    /\ userLog = <<>>
    /\ last = NULL
    /\ before = NULL

LikesToggleLike ==
    \E postId \in PostIds, userId \in UserIds :
        ToggleLike(postId, userId) /\ Remember("toggleLike", postId, userId)

LikesDeletePost ==
    \E postId \in PostIds :
        DeletePost(postId) /\ Remember("deletePost", postId, "")

NextLikes == LikesToggleLike \/ LikesDeletePost

SpecLikes == InitLikes /\ [][NextLikes]_vars

\* the last two calls were toggleLike on the same pair
DoubleToggle ==
    /\ last /= NULL
    /\ before /= NULL
    /\ last.op = "toggleLike"
    /\ before.op = "toggleLike"
    /\ last.postId = before.postId
    /\ last.userId = before.userId

\* the records of ls other than the pair's, in their order
RECURSIVE OtherLikes(_, _, _)
OtherLikes(ls, postId, userId) ==
    IF ls = <<>> THEN <<>>
    ELSE IF Head(ls).postId = postId /\ Head(ls).userId = userId
         THEN OtherLikes(Tail(ls), postId, userId)
         ELSE <<Head(ls)>> \o OtherLikes(Tail(ls), postId, userId)

LikedPairs(ls) == {<<ls[k].postId, ls[k].userId>> : k \in 1..Len(ls)}

(* C2, as claimed: toggleLike(p,u) called twice in succession returns the   *)
(* Like collection to its state before the two calls (same records, same    *)
(* order, same contents), whether or not (p,u) was liked before.            *)
C2_DoubleToggleRestores == DoubleToggle => likes = before.likes

(* C2, amended: two toggleLike(p,u) calls in succession restore the Like    *)
(* collection exactly when (p,u) was not liked before; when it was liked,   *)
(* the set of liked pairs and all other Likes (contents and relative order) *)
(* are as before, and the Like of (p,u) is a new record at the end of the   *)
(* collection stamped with the time of the second call.                     *)
C2_DoubleTogglePairing ==
    DoubleToggle =>
        /\ LikedPairs(likes) = LikedPairs(before.likes)
        /\ OtherLikes(likes, last.postId, last.userId)
             = OtherLikes(before.likes, last.postId, last.userId)
        /\ IF <<last.postId, last.userId>> \in LikedPairs(before.likes)
           THEN /\ Len(likes) = Len(before.likes)
                /\ likes[Len(likes)] =
                     [postId |-> last.postId, userId |-> last.userId,
                      createdAt |-> clock]
           ELSE likes = before.likes

\* a pair liked before two other pairs was toggled twice at a later time
C2_Witness ==
    /\ DoubleToggle
    /\ Len(before.likes) = 3
    /\ before.likes[1].postId = last.postId
    /\ before.likes[1].userId = last.userId
    /\ likes /= before.likes

(* C3: after one toggleLike(p,u), isLiked(p,u) is true iff it was false     *)
(* just before the call, and isLiked is unchanged for every other pair.     *)
C3_ToggleFlipsOnlyPair ==
    (last /= NULL /\ last.op = "toggleLike") =>
        \A postId \in PostIds, userId \in UserIds :
            isLiked(likes, postId, userId) =
                IF postId = last.postId /\ userId = last.userId
                THEN ~isLiked(last.likes, postId, userId)
                ELSE isLiked(last.likes, postId, userId)

\* a liked pair was toggled off while two other pairs stay liked
C3_Witness ==
    /\ last /= NULL
    /\ last.op = "toggleLike"
    /\ isLiked(last.likes, last.postId, last.userId)
    /\ ~isLiked(likes, last.postId, last.userId)
    /\ Len(likes) = 2

(* C4: in every state reached from the empty Like collection by toggleLike  *)
(* and deletePost calls, there is at most one Like per (postId, userId).    *)
C4_OneLikePerPair ==
    \A j, k \in 1..Len(likes) :
        (likes[j].postId = likes[k].postId /\ likes[j].userId = likes[k].userId)
            => j = k

\* a pair is liked again after a deletePost removed its earlier Like
C4_Witness ==
    /\ before /= NULL
    /\ last /= NULL
    /\ before.op = "deletePost"
    /\ last.op = "toggleLike"
    /\ <<last.postId, last.userId>> \in LikedPairs(before.likes)
    /\ Len(likes) = 3

----------------------------------------------------------------------------
(* SpecDelete: deletePost applied to stored collections of every shape the  *)
(* DataService calls produce (distinct post identifiers, one Like per pair) *)

DeletePostIds == PostIds \cup {"post_3"}
DeletePosts == {Post(id, "a") : id \in DeletePostIds}
CommentIds == {"comment_1", "comment_2"}
DeleteComments == {Comment(id, postId) : id \in CommentIds, postId \in PostIds}
DeleteLikes ==
    {[postId |-> p, userId |-> u, createdAt |-> 0] : p \in PostIds, u \in UserIds}

InitDelete ==
    /\ InitIdleApp
    /\ users = <<DefaultUser>>
    /\ posts \in DistinctSeqs(DeletePosts, 3)
    /\ comments \in UNION {[1..m -> DeleteComments] : m \in 0..MaxComments}
    /\ likes \in {q \in UNION {[1..m -> DeleteLikes] : m \in 0..MaxLikes} :
                    \A j, k \in 1..Len(q) : j /= k => q[j] /= q[k]}
    /\ session = DefaultUser
    /\ clock = 0
    /\ postLog = <<>>
    /\ userLog = <<>>
    /\ last = NULL
    /\ before = NULL

DeleteDeletePost ==
    \E postId \in DeletePostIds :
        DeletePost(postId) /\ Remember("deletePost", postId, "")

NextDelete == DeleteDeletePost

SpecDelete == InitDelete /\ [][NextDelete]_vars

\* the records of coll whose field f is not v, in their order
RECURSIVE Without(_, _, _)
Without(coll, f, v) ==
    IF coll = <<>> THEN <<>>
    ELSE IF Head(coll)[f] = v THEN Without(Tail(coll), f, v)
         ELSE <<Head(coll)>> \o Without(Tail(coll), f, v)

(* C5: deletePost(id) removes the Post with identifier id and every Comment *)
(* and Like whose postId is id, leaves every other post, comment and like   *)
(* unchanged and in the same relative order, and does not touch the user    *)
(* collection or the session pointer.                                       *)
C5_DeletePostFrame ==
    (last /= NULL /\ last.op = "deletePost") =>
        /\ posts = Without(last.posts, "id", last.postId)
        /\ comments = Without(last.comments, "postId", last.postId)
        /\ likes = Without(last.likes, "postId", last.postId)
        /\ users = last.users
        /\ session = last.session

\* the deleted post had a comment and a like, and two posts, a comment and
\* two likes of other posts survive
C5_Witness ==
    /\ last /= NULL
    /\ last.op = "deletePost"
    /\ Len(last.posts) = 3 /\ Len(posts) = 2
    /\ Len(last.comments) = 2 /\ Len(comments) = 1
    /\ Len(last.likes) = 3 /\ Len(likes) = 2
    /\ last.posts[2].id = last.postId

----------------------------------------------------------------------------
(* SpecMigrate: migration passes, one per page load, over stored post       *)
(* collections written before the Blob Store existed                        *)

LegacyEntries == {Inline("QUJD"), Inline("%%"), ImageId(0), Unknown("photo.png")}

SeqsUpTo(S, n) == UNION {[1..m -> S] : m \in 0..n}

\* the posts with identifier id that hold at most n image entries
LegacyPosts(id, n) ==
    LET base == [id |-> id, userId |-> "user_1", note |-> "a"]
        with(r, f, v) == [g \in DOMAIN r \cup {f} |-> IF g = f THEN v ELSE r[g]]
    IN  {base}
        \cup {with(base, "images", q) : q \in SeqsUpTo(LegacyEntries, n)}
        \cup (IF n = 0 THEN {}
              ELSE {with(base, "image", Inline("REVG"))}
                   \cup {with(with(base, "images", q), "image", Inline("REVG")) :
                            q \in SeqsUpTo(LegacyEntries, n - 1)})

ImageCount(post) ==
    (IF hasImages(post) THEN Len(post.images) ELSE 0)
    + (IF "image" \in DOMAIN post THEN 1 ELSE 0)

RECURSIVE TotalImages(_)
TotalImages(ps) ==
    IF ps = <<>> THEN 0 ELSE ImageCount(Head(ps)) + TotalImages(Tail(ps))

\* the collections of n posts post_1..post_n that hold at most max entries
RECURSIVE LegacyCollections(_, _)
LegacyCollections(n, max) ==
    IF n = 0 THEN {<<>>}
    ELSE UNION {{Append(ps, post) :
                    post \in LegacyPosts("post_" \o ToString(n),
                                         max - TotalImages(ps))} :
                ps \in LegacyCollections(n - 1, max)}

InitMigrate ==
    /\ users = <<DefaultUser>>
    /\ posts \in UNION {LegacyCollections(n, MaxImages) : n \in 0..MaxLegacyPosts}
    /\ comments = <<>>
    /\ likes = <<>>
    /\ session = DefaultUser
    /\ clock = 0
    /\ postLog = <<>>
    /\ userLog = <<>>
    /\ last = NULL
    /\ before = NULL
    /\ blobStore = putBlob(EmptyStore, ImageId(0), "XYZ")
    /\ nextImage = 0
    /\ mig = [pc |-> "idle"]
    /\ pass = [run |-> 0, orig |-> <<>>, failed |-> {}, puts |-> 0,
               putFailed |-> FALSE, prevPosts |-> <<>>, prevFailed |-> FALSE,
               writes |-> 0, blobs |-> 0, writeFailed |-> FALSE]
    /\ InitPage

recVars == <<users, posts, comments, likes, session, clock>>
histVars == <<postLog, userLog, last, before>>

\* migrateOldData reads and writes only the post collection and the Blob Store
MigrateFrame ==
    UNCHANGED <<users, comments, likes, session, clock, histVars, upVars, cacheVars, blobLog, feedVars>>

NextMigrate ==
    \/ MigrateStart /\ MigrateFrame
    \/ MigrateImage /\ MigrateFrame
    \/ MigratePostImages /\ MigrateFrame
    \/ MigrateLegacy /\ MigrateFrame
    \/ MigrateSkip /\ MigrateFrame
    \/ MigrateFinish /\ MigrateFrame

SpecMigrate == InitMigrate /\ [][NextMigrate]_vars

\* a pass has just finished
PassDone == mig.pc = "done" /\ pass.run >= 1

(* C6, as claimed: for every initial Post collection, a second run of the   *)
(* Migration Step right after the first leaves the Post collection as the   *)
(* first run produced it and performs no Blob Store write.                  *)
C6_SecondRunNoOp ==
    (PassDone /\ pass.run >= 2) => (posts = pass.prevPosts /\ pass.puts = 0)

(* C6, amended: when every image conversion of the first run succeeded, a   *)
(* second run right after it leaves the Post collection as the first run    *)
(* produced it and performs no Blob Store write.                            *)
C6_SecondRunNoOpAfterSuccess ==
    (PassDone /\ pass.run >= 2 /\ ~pass.prevFailed) =>
        (posts = pass.prevPosts /\ pass.puts = 0)

\* the second pass finished after a first pass that stored two images, one
\* of them a legacy single image, without a failure
C6_Witness ==
    /\ PassDone
    /\ pass.run = 2
    /\ ~pass.prevFailed
    /\ nextImage = 2
    /\ Len(posts) = 2
    /\ \A k \in 1..2 : hasImages(posts[k]) /\ Len(posts[k].images) = 1
    /\ "image" \notin DOMAIN posts[2]

(* C8: when the conversion of an inline image fails during migration, the   *)
(* inline data stays at its position of the post's image sequence, the pass *)
(* still processes every other image of the post and every other post, and  *)
(* each image that did convert is replaced by its identifier.               *)
C8_PartialFailureTolerant ==
    PassDone =>
        /\ Len(posts) = Len(pass.orig)
        /\ \A i \in 1..Len(pass.orig) :
            hasImages(pass.orig[i]) =>
                /\ hasImages(posts[i])
                /\ Len(posts[i].images) = Len(pass.orig[i].images)
                /\ \A j \in 1..Len(pass.orig[i].images) :
                    LET old == pass.orig[i].images[j]
                        new == posts[i].images[j]
                    IN  isInline(old) =>
                            IF <<i, j>> \in pass.failed
                            THEN new = old
                            ELSE /\ isImageId(new)
                                 /\ new \in DOMAIN blobStore
                                 /\ blobStore[new] = Decode(old.body)

\* the Blob Store put of the first image of post_1 failed; the second image
\* of post_1 and the image of post_2 were stored
C8_Witness ==
    /\ PassDone
    /\ pass.run = 1
    /\ pass.failed = {<<1, 1>>}
    /\ Len(posts) = 2
    /\ \A k \in 1..2 : "images" \in DOMAIN posts[k]
    /\ "images" \in DOMAIN pass.orig[1]
    /\ pass.orig[1].images = <<Inline("QUJD"), Inline("QUJD")>>
    /\ posts[1].images = <<Inline("QUJD"), ImageId(1)>>
    /\ posts[2].images = <<ImageId(2)>>

----------------------------------------------------------------------------
(* SpecApp: one page load: the migration, then uploads, post deletions and  *)
(* like toggles                                                             *)

InitApp ==
    /\ users = <<DefaultUser>>
    /\ posts \in LegacyCollections(0, MaxAppImages)
                 \cup LegacyCollections(1, MaxAppImages)
    /\ comments = <<>>
    /\ likes = <<>>
    /\ session = DefaultUser
    /\ clock = 0
    /\ postLog = <<>>
    /\ userLog = <<>>
    /\ last = NULL
    /\ before = NULL
    /\ blobStore = putBlob(EmptyStore, ImageId(0), "XYZ")
    /\ nextImage = 0
    /\ mig = [pc |-> "idle"]
    /\ pass = [run |-> 0, orig |-> <<>>, failed |-> {}, puts |-> 0,
               putFailed |-> FALSE, prevPosts |-> <<>>, prevFailed |-> FALSE,
               writes |-> 0, blobs |-> 0, writeFailed |-> FALSE]
    /\ InitPage

\* what a handleUploadForm step leaves alone outside the page
UploadRecFrame ==
    UNCHANGED <<users, comments, likes, session, clock, histVars, migVars, cacheVars, blobLog>>

\* the same for the specifications that do not follow the feed container
UploadFrame == UploadRecFrame /\ UNCHANGED feedVars

\* what a DataService call leaves alone
ServiceFrame == UNCHANGED <<histVars, appVars>>

NextApp ==
    \/ pass.run = 0 /\ MigrateStart /\ MigrateFrame
    \/ MigrateImage /\ MigrateFrame
    \/ MigratePostImages /\ MigrateFrame
    \/ MigrateLegacy /\ MigrateFrame
    \/ MigrateSkip /\ MigrateFrame
    \/ MigrateFinish /\ MigrateFrame
    \/ InitContinue /\ UNCHANGED <<recVars, histVars, blobVars, migVars, cacheVars, blobLog, feedVars>>
    \/ UploadSubmit /\ UploadFrame
    \/ UploadResume /\ UploadFrame
    \/ listening /\ ServiceFrame
          /\ \E k \in 1..Len(posts) : DeletePost(posts[k].id)
    \/ listening /\ ServiceFrame /\ ToggleLike("post_1", "user_1")

SpecApp == InitApp /\ [][NextApp]_vars

\* some post's image sequence holds inline-encoded data
InlineStored ==
    \E k \in 1..Len(posts) :
        /\ hasImages(posts[k])
        /\ \E j \in 1..Len(posts[k].images) : isInline(posts[k].images[j])

(* C7, as claimed: after a migration pass in which every Blob Store put     *)
(* succeeded, no post's image sequence in the persisted Post collection     *)
(* holds inline data, also after any later uploads, post deletions and like *)
(* toggles.                                                                 *)
C7_NoInlineAfterPuts ==
    (mig.pc = "done" /\ ~pass.putFailed) => ~InlineStored

(* C7, amended: after a migration pass in which every image conversion      *)
(* succeeded (the inline data could be fetched and decoded, and the Blob    *)
(* Store put succeeded), no post's image sequence in the persisted Post     *)
(* collection holds inline data, also after any later uploads, post         *)
(* deletions and like toggles.                                              *)
C7_NoInlineAfterConversions ==
    (mig.pc = "done" /\ pass.failed = {}) => ~InlineStored

\* the pass stored an inline image; afterwards a post with a stored file was
\* uploaded and a like was toggled
C7_Witness ==
    /\ mig.pc = "done"
    /\ pass.failed = {}
    /\ pass.puts = 1
    /\ Len(posts) = 2
    /\ posts[1].images = <<ImageId(1)>>
    /\ posts[2].images = <<ImageId(2)>>
    /\ Len(likes) = 1

-----------------------------------------------------------------------------
(* Display-URL cache: getImageUrl and revokeImageUrl over imageUrlCache     *)

\* URL.createObjectURL hands out a URL that no earlier call handed out
Url(n) == [prefix |-> "blob:", body |-> ToString(n)]

\* the '' of getImageUrl's catch branch
Unavailable == [prefix |-> "", body |-> ""]

\* imageUrlCache.has(imageId)
cacheHas(cache, imageId) == imageId \in DOMAIN cache

\* imageUrlCache.set(imageId, url)
cacheSet(cache, imageId, url) ==
    [k \in DOMAIN cache \cup {imageId} |-> IF k = imageId THEN url ELSE cache[k]]

\* a release that revokes the URL and keeps the mapping
cacheKeep(cache, imageId) == cache

\* imageUrlCache.delete(imageId)
cacheDelete(cache, imageId) == [k \in DOMAIN cache \ {imageId} |-> cache[k]]

\* what a step of the cache leaves behind for the properties: the operation,
\* its identifier, the URL it returned or revoked, and the state it started in
Event(op, imageId, url) ==
    [op |-> op, id |-> imageId, url |-> url,
     cache |-> imageUrlCache, live |-> liveUrls, calls |-> calls]

Note(op, imageId, url) ==
    /\ last' = Event(op, imageId, url)
    /\ before' = IF "id" \in DOMAIN last THEN [op |-> last.op, id |-> last.id] ELSE NULL

Returned(imageId, url) ==
    [urlHist EXCEPT !.returned = @ \cup {[id |-> imageId, url |-> url]}]

\* getImageUrl up to its first suspension: a cached URL and inline data are
\* returned at once, any other identifier suspends the call in getImageBlob
GetImageUrlCall(imageId) ==
    IF cacheHas(imageUrlCache, imageId)
    THEN /\ Note("hit", imageId, imageUrlCache[imageId])
         /\ urlHist' = Returned(imageId, imageUrlCache[imageId])
         /\ UNCHANGED <<imageUrlCache, liveUrls, nextUrl, calls>>
    ELSE IF isInline(imageId)
    THEN /\ Note("inline", imageId, imageId)
         /\ urlHist' = Returned(imageId, imageId)
         /\ UNCHANGED <<imageUrlCache, liveUrls, nextUrl, calls>>
    ELSE /\ nextUrl + BagCardinality(calls) < MaxResolves
         /\ calls' = calls (+) SetToBag({imageId})
         /\ Note("await", imageId, Unavailable)
         /\ urlHist' = [urlHist EXCEPT !.overlapped =
                IF BagIn(imageId, calls)
                THEN @ \cup {imageId} ELSE @]
         /\ UNCHANGED <<imageUrlCache, liveUrls, nextUrl>>

\* a rejected getImageBlob that reaches the caller of getImageUrl
Rejected == [prefix |-> "rejected", body |-> ""]

\* a getImageUrl without its try/catch
settledUncaught(found, url) == IF found THEN url ELSE Rejected

\* what getImageUrl settles with after getImageBlob: the created URL, or the
\* '' of the catch branch when getImageBlob rejected
settled(found, url) == IF found THEN url ELSE Unavailable

\* getImageUrl after getImageBlob settled: with the Blob an object URL is
\* created, cached and returned; a rejected get returns ''
GetImageUrlResume(imageId) ==
    /\ BagIn(imageId, calls)
    /\ \E dbOk \in BOOLEAN :
        LET found == dbOk /\ imageId \in DOMAIN blobStore
            url == Url(nextUrl + 1)
        IN  /\ calls' = calls (-) SetToBag({imageId})
            /\ IF found
               THEN /\ nextUrl' = nextUrl + 1
                    /\ liveUrls' = liveUrls \cup {[id |-> imageId, url |-> url]}
                    /\ imageUrlCache' = cacheSet(imageUrlCache, imageId, url)
                    /\ Note("made", imageId, settled(found, url))
                    /\ urlHist' = Returned(imageId, settled(found, url))
               ELSE /\ Note("failed", imageId, settled(found, url))
                    /\ UNCHANGED <<imageUrlCache, liveUrls, nextUrl, urlHist>>

revokeImageUrl(imageId) ==
    IF cacheHas(imageUrlCache, imageId)
    THEN /\ liveUrls' = {h \in liveUrls : h.url /= imageUrlCache[imageId]}
         /\ imageUrlCache' = cacheDelete(imageUrlCache, imageId)
         /\ Note("release", imageId, imageUrlCache[imageId])
         /\ urlHist' = [urlHist EXCEPT
                !.revoked = @ \cup {[id |-> imageId, url |-> imageUrlCache[imageId]]},
                !.released = @ \cup {imageId}]
    ELSE /\ Note("release", imageId, Unavailable)
         /\ urlHist' = [urlHist EXCEPT !.released = @ \cup {imageId}]
         /\ UNCHANGED <<imageUrlCache, liveUrls>>

RevokeImageUrl(imageId) ==
    /\ revokeImageUrl(imageId)
    /\ UNCHANGED <<nextUrl, calls>>

-----------------------------------------------------------------------------
(* SpecCache: the renders of a loaded page resolving image references, and  *)
(* releases, over a Blob Store that holds two of the referenced Blobs       *)

CacheIds == {ImageId(1), ImageId(2), ImageId(9), Inline("QUJD")}

InitCache ==
    /\ users = <<DefaultUser>>
    /\ posts = <<>>
    /\ comments = <<>>
    /\ likes = <<>>
    /\ session = DefaultUser
    /\ clock = 0
    /\ postLog = <<>>
    /\ userLog = <<>>
    /\ last = NULL
    /\ before = NULL
    /\ blobStore = putBlob(putBlob(EmptyStore, ImageId(1), "ABC"), ImageId(2), "DEF")
    /\ nextImage = 2
    /\ mig = [pc |-> "done"]
    /\ pass = NULL
    /\ currentUser = DefaultUser
    /\ listening = TRUE
    /\ uploads = <<>>
    /\ nextPost = 0
    /\ imageUrlCache = EmptyStore
    /\ liveUrls = {}
    /\ nextUrl = 0
    /\ calls = EmptyBag
    /\ urlHist = [revoked |-> {}, overlapped |-> {}, released |-> {}, returned |-> {},
                  cleared |-> {}, clearedBy |-> ""]
    /\ blobLog = EmptyStore
    /\ feed = <<>>
    /\ renders = <<>>
    /\ filter = ""

CacheFrame == UNCHANGED <<recVars, postLog, userLog, blobVars, migVars, upVars, blobLog, feedVars>>

NextCache ==
    \/ \E imageId \in CacheIds : GetImageUrlCall(imageId) /\ CacheFrame
    \/ \E imageId \in CacheIds : GetImageUrlResume(imageId) /\ CacheFrame
    \/ \E imageId \in CacheIds : RevokeImageUrl(imageId) /\ CacheFrame

SpecCache == InitCache /\ [][NextCache]_vars

(* C9: when two or more getImageUrl calls for one blob identifier are in    *)
(* progress at once and no release was called for it, at most one object    *)
(* URL is created for that identifier, every call that returns a URL        *)
(* returns that same URL, and every un-revoked object URL is the one the    *)
(* cache records.                                                           *)
C9_OneUrlPerIdentifier ==
    \A imageId \in urlHist.overlapped \ urlHist.released :
        /\ \A h1, h2 \in liveUrls : h1.id = imageId /\ h2.id = imageId => h1 = h2
        /\ \A r1, r2 \in urlHist.returned :
                r1.id = imageId /\ r2.id = imageId => r1 = r2
        /\ \A h \in liveUrls : h.id = imageId =>
                cacheHas(imageUrlCache, imageId) /\ imageUrlCache[imageId] = h.url

(* C10: revokeImageUrl on an identifier with a cached URL revokes that URL  *)
(* and removes the mapping, leaving the other mappings alone; a getImageUrl *)
(* for the same identifier that follows goes to the Blob Store again, and   *)
(* no getImageUrl ever returns a revoked URL, so that the URL it returns    *)
(* when the Blob is still stored differs from the revoked one;              *)
(* revokeImageUrl on an identifier without a cached URL changes nothing.    *)
C10_ReleaseThenResolve ==
    /\ (last /= NULL /\ last.op = "release" /\ cacheHas(last.cache, last.id)) =>
            /\ last.url = last.cache[last.id]
            /\ \A h \in liveUrls : h.url /= last.url
            /\ imageUrlCache = [k \in DOMAIN last.cache \ {last.id} |-> last.cache[k]]
            /\ calls = last.calls
    /\ (last /= NULL /\ last.op = "release" /\ ~cacheHas(last.cache, last.id)) =>
            /\ imageUrlCache = last.cache
            /\ liveUrls = last.live
            /\ calls = last.calls
    /\ (last /= NULL /\ before /= NULL /\ before.op = "release"
            /\ last.op \in {"hit", "inline", "await"} /\ last.id = before.id
            /\ ~isInline(last.id)) =>
            /\ last.op = "await"
            /\ calls = last.calls (+) SetToBag({last.id})
    /\ (last /= NULL /\ last.op \in {"hit", "made"}) =>
            /\ \A r \in urlHist.revoked : r.url /= last.url
            /\ [id |-> last.id, url |-> last.url] \in liveUrls
    /\ \A k \in DOMAIN imageUrlCache :
            \A r \in urlHist.revoked : r.url /= imageUrlCache[k]

\* a URL of an identifier was revoked, and the getImageUrl that followed the
\* release has created another URL for the identifier from the stored Blob
C10_Witness ==
    /\ last /= NULL /\ before /= NULL
    /\ last.op = "made"
    /\ before.op = "await" /\ before.id = last.id
    /\ \E r \in urlHist.revoked : r.id = last.id /\ r.url /= last.url
    /\ cacheHas(imageUrlCache, last.id)
    /\ imageUrlCache[last.id] = last.url

(* C11: when the Blob Store get of a getImageUrl call fails, because the    *)
(* Blob is missing or the store cannot be opened, the call does not reject: *)
(* it returns the empty string, and the cache and the object URLs are as    *)
(* they were before.                                                        *)
C11_GetFailureUnavailable ==
    (last /= NULL /\ last.op = "failed") =>
        /\ last.url = Unavailable
        /\ imageUrlCache = last.cache
        /\ liveUrls = last.live
        /\ ~cacheHas(imageUrlCache, last.id)
            \/ (cacheHas(last.cache, last.id)
                    /\ imageUrlCache[last.id] = last.cache[last.id])

\* a getImageUrl for a Blob that the store does not hold has failed while the
\* cache held the URL of another image
C11_Witness ==
    /\ last /= NULL
    /\ last.op = "failed"
    /\ last.id = ImageId(9)
    /\ last.id \notin DOMAIN blobStore
    /\ cacheHas(imageUrlCache, ImageId(1))

-----------------------------------------------------------------------------
(* SpecBlob: saveImageBlob, getImageBlob and deleteAllImages on the object  *)
(* store.  Each settles in one IndexedDB transaction, hence one step.       *)

Files == {"ABC", "DEF"}

\* reject(new Error('Image not found'))
NotFound == "NotFound"

\* a rejection with the error of openDB or of the request
StoreError == "StoreError"

\* request.result of store.get(imageId), or the rejection for an absent key
getBlob(store, imageId) ==
    IF imageId \in DOMAIN store THEN store[imageId] ELSE NotFound

BlobEvent(op, imageId, result, ok) ==
    [op |-> op, id |-> imageId, result |-> result, ok |-> ok,
     store |-> blobStore, log |-> blobLog]

SaveImageBlob(file) ==
    /\ nextImage < MaxPuts
    /\ \E dbOk \in BOOLEAN :
        LET imageId == ImageId(nextImage + 1)
        IN  IF dbOk
            THEN /\ blobStore' = putBlob(blobStore, imageId, file)
                 /\ nextImage' = nextImage + 1
                 /\ blobLog' = [k \in DOMAIN blobLog \cup {imageId} |->
                                    IF k \in DOMAIN blobLog THEN blobLog[k] ELSE file]
                 /\ last' = BlobEvent("put", imageId, imageId, TRUE)
            ELSE /\ last' = BlobEvent("put", imageId, StoreError, FALSE)
                 /\ UNCHANGED <<blobStore, nextImage, blobLog>>

GetImageBlob(imageId) ==
    /\ \E dbOk \in BOOLEAN :
        last' = BlobEvent("get", imageId,
                          IF dbOk THEN getBlob(blobStore, imageId) ELSE StoreError, dbOk)
    /\ UNCHANGED <<blobStore, nextImage, blobLog>>

DeleteAllImages ==
    /\ \E dbOk \in BOOLEAN :
        IF dbOk
        THEN /\ blobStore' = EmptyStore
             /\ blobLog' = EmptyStore
             /\ last' = BlobEvent("clear", NULL, NULL, TRUE)
        ELSE /\ last' = BlobEvent("clear", NULL, StoreError, FALSE)
             /\ UNCHANGED <<blobStore, blobLog>>
    /\ UNCHANGED nextImage

InitBlob ==
    /\ users = <<DefaultUser>>
    /\ posts = <<>>
    /\ comments = <<>>
    /\ likes = <<>>
    /\ session = NULL
    /\ clock = 0
    /\ postLog = <<>>
    /\ userLog = <<>>
    /\ last = NULL
    /\ before = NULL
    /\ InitIdleApp

BlobFrame ==
    UNCHANGED <<recVars, postLog, userLog, before, migVars, upVars, cacheVars, feedVars>>

BlobIds == {ImageId(n) : n \in 0..(MaxPuts + 1)}

NextBlob ==
    \/ \E file \in Files : SaveImageBlob(file) /\ BlobFrame
    \/ \E imageId \in BlobIds : GetImageBlob(imageId) /\ BlobFrame
    \/ DeleteAllImages /\ BlobFrame

SpecBlob == InitBlob /\ [][NextBlob]_vars

(* C12: over any sequence of saveImageBlob, getImageBlob and                *)
(* deleteAllImages, a getImageBlob whose request succeeds returns the       *)
(* content that was put under the identifier when a saveImageBlob returned  *)
(* the identifier since the last clear, and fails with NotFound otherwise;  *)
(* a saveImageBlob returns an identifier that no earlier one returned and   *)
(* leaves the content stored under every other identifier as it was.        *)
C12_BlobStoreReadBack ==
    /\ (last /= NULL /\ last.op = "get" /\ last.ok) =>
            last.result = IF last.id \in DOMAIN blobLog
                          THEN blobLog[last.id] ELSE NotFound
    /\ (last /= NULL /\ last.op = "put" /\ last.ok) =>
            /\ last.id \notin DOMAIN last.log
            /\ \A k \in DOMAIN last.store :
                    k \in DOMAIN blobStore /\ blobStore[k] = last.store[k]
            /\ last.id \in DOMAIN blobStore
            /\ blobStore[last.id] = blobLog[last.id]
    /\ (last /= NULL /\ last.op = "clear" /\ last.ok) => blobStore = EmptyStore
    /\ DOMAIN blobStore = DOMAIN blobLog
    /\ \A k \in DOMAIN blobLog : blobStore[k] = blobLog[k]

\* after a put, a clear and another put, a get of the second identifier has
\* returned its content
C12_Witness ==
    /\ last /= NULL
    /\ last.op = "get" /\ last.ok
    /\ last.id = ImageId(2)
    /\ last.result = "DEF"
    /\ DOMAIN blobStore = {ImageId(2)}

-----------------------------------------------------------------------------
(* SpecClear: clearing the Blob Store, through handleClearImages or through *)
(* deleteAllImages alone, while the renders resolve the image references of *)
(* the stored posts                                                         *)

\* a clear that leaves the mappings in place
cacheKept(cache) == cache

\* imageUrlCache.clear()
cacheClear(cache) == EmptyStore

\* handleClearImages after the confirm: deleteAllImages, then every cached
\* URL is revoked and the cache emptied; a failing clear only alerts.  The
\* continuation runs in the microtasks of the clear's success event.
HandleClearImages ==
    \E dbOk \in BOOLEAN :
        IF dbOk
        THEN /\ blobStore' = EmptyStore
             /\ blobLog' = EmptyStore
             /\ liveUrls' = {h \in liveUrls :
                                \A k \in DOMAIN imageUrlCache : imageUrlCache[k] /= h.url}
             /\ imageUrlCache' = cacheClear(imageUrlCache)
             /\ Note("handleClearImages", NULL, Unavailable)
             /\ urlHist' = [urlHist EXCEPT !.cleared = @ \cup DOMAIN blobStore,
                                           !.clearedBy = "handleClearImages"]
             /\ UNCHANGED <<nextImage, nextUrl, calls>>
        ELSE /\ Note("clearFailed", NULL, Unavailable)
             /\ UNCHANGED <<blobVars, blobLog, imageUrlCache, liveUrls, nextUrl,
                            calls, urlHist>>

\* deleteAllImages called on its own
ClearStoreOnly ==
    /\ DeleteAllImages
    /\ urlHist' = IF last'.ok
                  THEN [urlHist EXCEPT !.cleared = @ \cup DOMAIN blobStore,
                                       !.clearedBy = "deleteAllImages"]
                  ELSE urlHist
    /\ UNCHANGED <<before, imageUrlCache, liveUrls, nextUrl, calls>>

ClearPosts ==
    <<postAt("post_1", DefaultUser, <<ImageId(1), ImageId(2)>>, 0),
      postAt("post_2", DefaultUser, <<ImageId(2)>>, 0)>>

\* the identifiers the renders pass to getImageUrl
ClearIds == UNION {{ClearPosts[k].images[j] : j \in 1..Len(ClearPosts[k].images)} :
                        k \in 1..Len(ClearPosts)}

InitClear ==
    /\ users = <<DefaultUser>>
    /\ posts = ClearPosts
    /\ comments = <<>>
    /\ likes = <<>>
    /\ session = DefaultUser
    /\ clock = 0
    /\ postLog = <<>>
    /\ userLog = <<>>
    /\ last = NULL
    /\ before = NULL
    /\ blobStore = putBlob(putBlob(EmptyStore, ImageId(1), "ABC"), ImageId(2), "DEF")
    /\ nextImage = 2
    /\ mig = [pc |-> "done"]
    /\ pass = NULL
    /\ currentUser = DefaultUser
    /\ listening = TRUE
    /\ uploads = <<>>
    /\ nextPost = 0
    /\ imageUrlCache = EmptyStore
    /\ liveUrls = {}
    /\ nextUrl = 0
    /\ calls = EmptyBag
    /\ urlHist = [revoked |-> {}, overlapped |-> {}, released |-> {}, returned |-> {},
                  cleared |-> {}, clearedBy |-> ""]
    /\ blobLog = blobStore
    /\ feed = <<>>
    /\ renders = <<>>
    /\ filter = ""

ClearFrame == UNCHANGED <<recVars, postLog, userLog, migVars, upVars, feedVars>>

NextClear ==
    \/ \E imageId \in ClearIds :
            GetImageUrlCall(imageId) /\ ClearFrame /\ UNCHANGED <<blobVars, blobLog>>
    \/ \E imageId \in ClearIds :
            GetImageUrlResume(imageId) /\ ClearFrame /\ UNCHANGED <<blobVars, blobLog>>
    \/ HandleClearImages /\ ClearFrame
    \/ ClearStoreOnly /\ ClearFrame

SpecClear == InitClear /\ [][NextClear]_vars

\* the last step was a getImageUrl settling for a Blob that a clear removed
ResolvedCleared ==
    /\ last /= NULL
    /\ last.op \in {"hit", "made", "failed"}
    /\ last.id \in urlHist.cleared

(* C13, as claimed: after a clear of the Blob Store the image references of *)
(* the posts are unchanged, and a getImageUrl for a Blob that was stored    *)
(* before the clear returns the empty string, whether the clear was made by *)
(* handleClearImages or by deleteAllImages alone.                           *)
C13_ClearedUnavailable ==
    /\ posts = ClearPosts
    /\ ResolvedCleared => last.url = Unavailable

(* C13, amended: after a clear of the Blob Store the image references of    *)
(* the posts are unchanged; a getImageUrl for a Blob that was stored before *)
(* the clear returns the empty string when the latest clear was made by     *)
(* handleClearImages, which also empties the cache, or when no URL is       *)
(* cached for the identifier; after deleteAllImages alone an identifier     *)
(* whose URL is still cached resolves to that cached URL.                   *)
C13_ClearedUnavailableUnlessCached ==
    /\ posts = ClearPosts
    /\ ResolvedCleared =>
            \/ last.url = Unavailable
            \/ /\ urlHist.clearedBy = "deleteAllImages"
               /\ last.op = "hit"
               /\ cacheHas(last.cache, last.id)
               /\ last.url = last.cache[last.id]
    /\ (last /= NULL /\ last.op = "handleClearImages") =>
            /\ imageUrlCache = EmptyStore
            /\ blobStore = EmptyStore
    /\ urlHist.clearedBy = "handleClearImages" =>
            \A imageId \in urlHist.cleared : ~cacheHas(imageUrlCache, imageId)

\* handleClearImages has emptied a store and a cache that held an image of a
\* post, and a getImageUrl for that image, started afterwards, has failed
C13_Witness ==
    /\ ResolvedCleared
    /\ last.op = "failed"
    /\ urlHist.clearedBy = "handleClearImages"
    /\ before /= NULL /\ before.op = "await" /\ before.id = last.id
    /\ \E r \in urlHist.returned : r.id = last.id /\ r.url /= Unavailable
    /\ last.id = posts[1].images[1]

-----------------------------------------------------------------------------
(* SpecSession: setCurrentUser and saveUser from the state DataService.init *)
(* leaves                                                                   *)

SessionUsers == {User(id, b) : id \in UserIds \cup {"user_3"}, b \in Notes}

\* JSON.parse(localStorage.getItem('current_user') || 'null')
getCurrentUser == session

UserCall(op, user) ==
    [op |-> op, user |-> user, users |-> users, session |-> session]

SessionSetCurrentUser ==
    \E user \in SessionUsers :
        /\ SetCurrentUser(user)
        /\ last' = UserCall("setCurrentUser", user)
        /\ UNCHANGED <<postLog, userLog, before, appVars>>

SessionSaveUser ==
    \E user \in SessionUsers :
        /\ SaveUser(user)
        /\ last' = UserCall("saveUser", user)
        /\ UNCHANGED <<postLog, userLog, before, appVars>>

InitSession ==
    /\ InitIdleApp
    /\ users = <<DefaultUser>>
    /\ posts = <<>>
    /\ comments = <<>>
    /\ likes = <<>>
    /\ session = NULL
    /\ clock = 0
    /\ postLog = <<>>
    /\ userLog = <<>>
    /\ last = NULL
    /\ before = NULL

NextSession == SessionSetCurrentUser \/ SessionSaveUser

SpecSession == InitSession /\ [][NextSession]_vars

(* C14: after setCurrentUser(user), getCurrentUser() returns user, and the  *)
(* user collection holds user under its identifier, in the place of the     *)
(* record that had the identifier or appended when there was none, with     *)
(* every other user record unchanged.                                       *)
C14_SetCurrentUserPersists ==
    (last /= NULL /\ last.op = "setCurrentUser") =>
        /\ getCurrentUser = last.user
        /\ IF \E i \in 1..Len(last.users) : last.users[i].id = last.user.id
           THEN /\ Len(users) = Len(last.users)
                /\ \A i \in 1..Len(users) :
                        users[i] = IF last.users[i].id = last.user.id
                                   THEN last.user ELSE last.users[i]
           ELSE users = Append(last.users, last.user)
        /\ \A i, j \in 1..Len(users) : users[i].id = users[j].id => i = j

\* setCurrentUser has replaced the middle one of three stored users, with a
\* changed bio, while another user was the current one
C14_Witness ==
    /\ last /= NULL
    /\ last.op = "setCurrentUser"
    /\ Len(last.users) = 3
    /\ last.users[2].id = last.user.id
    /\ last.users[2] /= last.user
    /\ last.session /= NULL /\ last.session.id /= last.user.id
    /\ users[2] = last.user

-----------------------------------------------------------------------------
(* SpecLogin: handleLogin submissions on a loaded page.  The default user   *)
(* was created when the page was first loaded, before the clock value of    *)
(* any submission.                                                          *)

\* 'user_' + Date.now()
UserId(now) == "user_" \o ToString(now)

LoginNames == {"", "ann", "bob", "default"}
LoginBios == {"", "x"}

\* users.find(u => u.username === username): the position of the first user
\* with the name, 0 when there is none
find(us, username) ==
    findIndex(where(us, "username", username)) + 1

LoginCall(username, bio) ==
    [op |-> "handleLogin", username |-> username, bio |-> bio,
     users |-> users, session |-> session]

HandleLogin(username, bio) ==
    /\ listening
    /\ Len(userLog) < MaxLogins
    /\ last' = LoginCall(username, bio)
    /\ IF ~Truthy(username)
       THEN UNCHANGED <<users, session, clock, currentUser, userLog>>
       ELSE \E now \in {clock, clock + 1} :
            LET k == find(users, username)
                user == IF k = 0
                        THEN [id |-> UserId(now), username |-> username, bio |-> bio]
                        ELSE IF Truthy(bio) THEN [users[k] EXCEPT !.bio = bio]
                        ELSE users[k]
                saved == IF k = 0 \/ Truthy(bio) THEN saveUser(users, user) ELSE users
            IN  /\ clock' = now
                /\ currentUser' = user
                /\ session' = user
                /\ users' = saveUser(saved, user)
                /\ userLog' = Append(userLog, user)
    /\ UNCHANGED <<posts, comments, likes, postLog, before, blobVars, migVars,
                   listening, uploads, nextPost, cacheVars, blobLog, feedVars>>

InitLogin ==
    /\ users = <<[id |-> UserId(0), username |-> "default", bio |-> "a"]>>
    /\ posts = <<>>
    /\ comments = <<>>
    /\ likes = <<>>
    /\ session = NULL
    /\ clock = 1
    /\ postLog = <<>>
    /\ userLog = <<>>
    /\ last = NULL
    /\ before = NULL
    /\ blobStore = EmptyStore
    /\ nextImage = 0
    /\ mig = [pc |-> "done"]
    /\ pass = NULL
    /\ currentUser = NULL
    /\ listening = TRUE
    /\ uploads = <<>>
    /\ nextPost = 0
    /\ imageUrlCache = EmptyStore
    /\ liveUrls = {}
    /\ nextUrl = 0
    /\ calls = EmptyBag
    /\ urlHist = [revoked |-> {}, overlapped |-> {}, released |-> {}, returned |-> {},
                  cleared |-> {}, clearedBy |-> ""]
    /\ blobLog = EmptyStore
    /\ feed = <<>>
    /\ renders = <<>>
    /\ filter = ""

NextLogin == \E username \in LoginNames, bio \in LoginBios : HandleLogin(username, bio)

SpecLogin == InitLogin /\ [][NextLogin]_vars

\* the positions of the user records with the name
Named(us, username) == {i \in 1..Len(us) : us[i].username = username}

\* every name that has logged in has exactly one user record, and keeps the
\* identifier of its first login
OneRecordPerLogin ==
    /\ \A n \in 1..Len(userLog) :
            /\ Cardinality(Named(users, userLog[n].username)) = 1
            /\ \A i \in Named(users, userLog[n].username) : users[i].id = userLog[n].id
    /\ \A i, j \in 1..Len(users) : users[i].id = users[j].id => i = j

\* what the last login did to the collection: nothing but the bio of its own
\* record changes when the name existed, one record is added when it did not
LoginStep ==
    (last /= NULL /\ Truthy(last.username)) =>
        IF Named(last.users, last.username) /= {}
        THEN /\ Len(users) = Len(last.users)
             /\ \A i \in 1..Len(users) :
                    IF last.users[i].username = last.username
                    THEN /\ users[i].id = last.users[i].id
                         /\ users[i].username = last.username
                         /\ session = users[i]
                    ELSE users[i] = last.users[i]
        ELSE /\ Len(users) = Len(last.users) + 1
             /\ \A i \in 1..Len(last.users) : users[i] = last.users[i]
             /\ users[Len(users)].username = last.username
             /\ session = users[Len(users)]

\* no two users that logged in were given one identifier, that is, created
\* at one value of Date.now()
DistinctCreationTimes ==
    \A i, j \in 1..Len(userLog) :
        userLog[i].id = userLog[j].id => userLog[i].username = userLog[j].username

(* C15, as claimed: after any sequence of handleLogin submissions with      *)
(* non-empty names the user collection holds exactly one record for each    *)
(* name that has logged in; a login with an existing name loads that user   *)
(* and adds no record, a login with a new name adds exactly one record, and *)
(* no user's record is removed or overwritten by another user's.            *)
C15_OneUserPerName == OneRecordPerLogin /\ LoginStep

\* the logins keep one record per name as long as no two users are created
\* at the same value of Date.now(), from which their identifiers are made
OneUserPerNameDistinctTimes ==
    DistinctCreationTimes => (OneRecordPerLogin /\ LoginStep)

-----------------------------------------------------------------------------
(* Writes of the post collection by migrateOldData, under SpecMigrate       *)

\* the pass has stored at least one Blob
PassMigrated == Cardinality(DOMAIN blobStore) > pass.blobs

(* C16: migrateOldData writes the post collection exactly once, after every *)
(* post was processed, when the pass migrated at least one image, and does  *)
(* not write it at all when the pass migrated none, also when every         *)
(* conversion it tried failed.                                              *)
C16_SingleWriteBack ==
    /\ mig.pc = "loop" => (pass.writes = 0 /\ posts = pass.orig)
    /\ PassDone =>
            /\ pass.writes = IF PassMigrated THEN 1 ELSE 0
            /\ ~PassMigrated => posts = pass.orig

\* a pass over two posts has migrated an image of the second one, failed on
\* another image, and written the collection once
C16_Witness ==
    /\ PassDone
    /\ pass.run = 1
    /\ pass.writes = 1
    /\ pass.failed /= {}
    /\ Len(posts) = 2
    /\ posts[2] /= pass.orig[2]
    /\ posts[1] = pass.orig[1]

-----------------------------------------------------------------------------
(* SpecInit: the page start, init with its migration pass, a write-back     *)
(* that localStorage may refuse, and afterwards the handlers and renders    *)
(* that setupEventListeners and init set going                              *)

\* a migrateOldData without its outer try/catch
migratePropagates(threw) == IF threw THEN "rejected" ELSE "done"

\* try { ... } catch (error) { console.warn(...) }: migrateOldData returns
\* normally whatever was thrown inside
migrateCatches(threw) == "done"

\* localStorage.setItem throws in the write-back
MigrateWriteFails ==
    /\ mig.pc = "loop"
    /\ mig.i > Len(mig.posts)
    /\ shouldWrite(mig.migrationCount)
    /\ mig' = [pc |-> migrateCatches(TRUE)]
    /\ pass' = [pass EXCEPT !.writeFailed = TRUE]
    /\ UNCHANGED <<posts, blobVars>>

\* a render asks for the URL of the first image of a stored post
RenderCall ==
    /\ listening
    /\ \E k \in 1..Len(posts) :
        /\ hasImages(posts[k])
        /\ Len(posts[k].images) > 0
        /\ GetImageUrlCall(posts[k].images[1])

RenderResume == \E imageId \in DOMAIN calls : GetImageUrlResume(imageId)

\* the post collections a page starts with: none, migrated, to be migrated
\* with and without success, of the legacy single-image shape, without image
StartCollections ==
    {<<>>,
     <<postAt("post_1", DefaultUser, <<ImageId(0)>>, 0)>>,
     <<postAt("post_1", DefaultUser, <<Inline("QUJD")>>, 0)>>,
     <<postAt("post_1", DefaultUser, <<Inline("%%"), Inline("QUJD")>>, 0)>>,
     <<[id |-> "post_1", userId |-> "user_1", note |-> "a", image |-> Inline("REVG")]>>,
     <<[id |-> "post_1", userId |-> "user_1", note |-> "a"]>>}

InitStart ==
    /\ users = <<DefaultUser>>
    /\ posts \in StartCollections
    /\ comments = <<>>
    /\ likes = <<>>
    /\ session \in {NULL, DefaultUser}
    /\ clock = 0
    /\ postLog = <<>>
    /\ userLog = <<>>
    /\ last = NULL
    /\ before = NULL
    /\ blobStore = putBlob(EmptyStore, ImageId(0), "XYZ")
    /\ nextImage = 0
    /\ mig = [pc |-> "idle"]
    /\ pass = [run |-> 0, orig |-> <<>>, failed |-> {}, puts |-> 0,
               putFailed |-> FALSE, prevPosts |-> <<>>, prevFailed |-> FALSE,
               writes |-> 0, blobs |-> 0, writeFailed |-> FALSE]
    /\ InitPage

\* the uploads, logins and image resolutions started so far
Started ==
    nextPost + Len(uploads) + Len(userLog) + nextUrl + BagCardinality(calls)

InitSteps ==
    \/ pass.run = 0 /\ MigrateStart /\ MigrateFrame
    \/ MigrateImage /\ MigrateFrame
    \/ MigratePostImages /\ MigrateFrame
    \/ MigrateLegacy /\ MigrateFrame
    \/ MigrateSkip /\ MigrateFrame
    \/ MigrateFinish /\ MigrateFrame
    \/ MigrateWriteFails /\ MigrateFrame
    \/ InitContinue /\ UNCHANGED <<recVars, histVars, blobVars, migVars, cacheVars, blobLog, feedVars>>

NextInit ==
    \/ pass.run = 0 /\ MigrateStart /\ MigrateFrame
    \/ MigrateImage /\ MigrateFrame
    \/ MigratePostImages /\ MigrateFrame
    \/ MigrateLegacy /\ MigrateFrame
    \/ MigrateSkip /\ MigrateFrame
    \/ MigrateFinish /\ MigrateFrame
    \/ MigrateWriteFails /\ MigrateFrame
    \/ InitContinue /\ UNCHANGED <<recVars, histVars, blobVars, migVars, cacheVars, blobLog, feedVars>>
    \/ Started < MaxStarted /\ UploadSubmit /\ UploadFrame
    \/ UploadResume /\ UploadFrame
    \/ Started < MaxStarted /\ \E bio \in LoginBios : HandleLogin("ann", bio)
    \/ listening /\ HandleClearImages /\ ClearFrame
    \/ Started < MaxStarted /\ RenderCall /\ ClearFrame /\ UNCHANGED <<blobVars, blobLog>>
    \/ RenderResume /\ ClearFrame /\ UNCHANGED <<blobVars, blobLog>>

SpecInit == InitStart /\ [][NextInit]_vars

\* init is scheduled until it has registered the listeners
SpecInitFair == SpecInit /\ WF_vars(InitSteps)

\* nothing but init and its migration has run
OnlyMigrationRan ==
    /\ ~listening
    /\ currentUser = NULL
    /\ uploads = <<>> /\ nextPost = 0
    /\ userLog = <<>> /\ last = NULL
    /\ calls = EmptyBag /\ nextUrl = 0
    /\ urlHist.clearedBy = ""

(* C17: at startup migrateOldData runs to completion before init loads the  *)
(* session user, registers a listener or starts a render, so that no        *)
(* upload, login, clear or render step runs between the pass's read of the  *)
(* post collection and its write-back, and the collection stays as the pass *)
(* read it until then.                                                      *)
C17_MigrationBeforeListeners ==
    /\ mig.pc \in {"idle", "loop"} => OnlyMigrationRan
    /\ mig.pc = "loop" => posts = pass.orig
    /\ listening => mig.pc = "done"

\* the pass migrated an image and wrote the collection; then the listeners
\* were registered, a user logged in and a post was uploaded
C17_Witness ==
    /\ mig.pc = "done"
    /\ pass.writes = 1
    /\ listening
    /\ userLog /= <<>>
    /\ nextPost = 1
    /\ Len(posts) = 2

\* something went wrong inside the pass: a conversion failed, the Blob Store
\* refused a put, or localStorage refused the write-back
MigrationFailed ==
    /\ pass /= NULL
    /\ pass.run >= 1
    /\ pass.failed /= {} \/ pass.putFailed \/ pass.writeFailed

(* C18: no failure inside migrateOldData, be it a failing conversion, an    *)
(* unavailable Blob Store or a failing write-back of the posts, leaves      *)
(* migrateOldData as a rejection: after a failure init still goes on, loads *)
(* the session user and registers the listeners.                            *)
C18_FailureDoesNotStopInit ==
    /\ [](mig.pc /= "rejected")
    /\ MigrationFailed ~> (listening /\ mig.pc = "done")

\* a conversion failed, another image was stored, the write-back was refused,
\* and init has loaded the session user and registered the listeners
C18_Witness ==
    /\ MigrationFailed
    /\ pass.failed /= {}
    /\ pass.writeFailed
    /\ listening
    /\ currentUser = session
    /\ posts = pass.orig

-----------------------------------------------------------------------------
(* What a migration pass does to the posts, under SpecMigrate               *)

\* the k-th post carried an inline legacy image when the pass read it, and
\* nothing the pass stored or converted for it failed
LegacyStorable(k) ==
    /\ hasLegacyImage(pass.orig[k])
    /\ ~pass.putFailed
    /\ \A f \in pass.failed : f[1] /= k

\* the k-th post has the one-element image sequence of its former legacy
\* image, stored decoded under the identifier, and no legacy field
LegacyReplaced(k) ==
    /\ "image" \notin DOMAIN posts[k]
    /\ hasImages(posts[k])
    /\ Len(posts[k].images) = 1
    /\ isImageId(posts[k].images[1])
    /\ posts[k].images[1] \in DOMAIN blobStore
    /\ blobStore[posts[k].images[1]] = Decode(pass.orig[k].image.body)

(* C19, as claimed: after a migration pass, every post that carried a       *)
(* legacy single image field with inline data, and whose store operation    *)
(* succeeded, has a one-element image sequence holding the generated        *)
(* identifier and no legacy field any more; also when the post had an image *)
(* sequence, empty or not, besides the legacy field.                        *)
C19_LegacyImageMigrated ==
    PassDone =>
        \A k \in 1..Len(pass.orig) : LegacyStorable(k) => LegacyReplaced(k)

(* C19, amended: that holds for the posts that had no image sequence; a     *)
(* post that had an image sequence, empty or not, besides the legacy field  *)
(* keeps the legacy field with its inline data and a sequence of the same   *)
(* length, of which only the entries are migrated.                          *)
C19_LegacyImageMigratedWithoutSequence ==
    PassDone =>
        \A k \in 1..Len(pass.orig) :
            LegacyStorable(k) =>
                IF hasImages(pass.orig[k])
                THEN /\ "image" \in DOMAIN posts[k]
                     /\ posts[k].image = pass.orig[k].image
                     /\ hasImages(posts[k])
                     /\ Len(posts[k].images) = Len(pass.orig[k].images)
                ELSE LegacyReplaced(k)

\* a pass has replaced the legacy image of a post without a sequence and has
\* left the legacy image of a post with a sequence
C19_Witness ==
    /\ PassDone
    /\ pass.run = 1
    /\ Len(pass.orig) = 2
    /\ LegacyStorable(1) /\ ~hasImages(pass.orig[1])
    /\ LegacyStorable(2) /\ hasImages(pass.orig[2])
    /\ LegacyReplaced(1)
    /\ "image" \in DOMAIN posts[2]

\* the post p has every field of the post q, with the same value, but for
\* the image fields
SameButImages(p, q) ==
    /\ DOMAIN p \ {"images", "image"} = DOMAIN q \ {"images", "image"}
    /\ \A f \in DOMAIN q \ {"images", "image"} : p[f] = q[f]

\* the entry n is what a pass leaves at position <<k, j>>, where it found e
EntryKept(k, j, e, n) ==
    IF ~isInline(e) THEN n = e
    ELSE IF <<k, j>> \in pass.failed THEN n = e
    ELSE /\ isImageId(n)
         /\ n \in DOMAIN blobStore
         /\ blobStore[n] = Decode(e.body)

(* C20: a migration pass changes nothing but inline image entries: the      *)
(* posts keep their number, order and other fields; an image sequence keeps *)
(* its length and order, its entries that are identifiers or of unknown     *)
(* format stay as they were, and each migrated position holds an identifier *)
(* under which the decoded bytes of the inline data it replaced are stored. *)
C20_MigrationFrame ==
    PassDone =>
        /\ Len(posts) = Len(pass.orig)
        /\ \A k \in 1..Len(pass.orig) :
            LET p == posts[k]
                q == pass.orig[k]
            IN  /\ SameButImages(p, q)
                /\ IF hasImages(q)
                   THEN /\ hasImages(p)
                        /\ Len(p.images) = Len(q.images)
                        /\ \A j \in 1..Len(q.images) :
                                EntryKept(k, j, q.images[j], p.images[j])
                        /\ ("image" \in DOMAIN q) =>
                                ("image" \in DOMAIN p /\ p.image = q.image)
                   ELSE IF hasLegacyImage(q)
                   THEN p = q \/ LegacyReplaced(k)
                   ELSE p = q

\* a pass over a sequence of an inline image, an identifier and an entry of
\* unknown format has replaced the first and kept the other two
C20_Witness ==
    /\ PassDone
    /\ pass.run = 1
    /\ Len(pass.orig) = 1
    /\ hasImages(pass.orig[1])
    /\ pass.orig[1].images = <<Inline("QUJD"), ImageId(0), Unknown("photo.png")>>
    /\ posts[1].images = <<ImageId(1), ImageId(0), Unknown("photo.png")>>
    /\ blobStore[ImageId(1)] = "ABC"

----------------------------------------------------------------------------
(* SpecFeed: the feed container under overlapping renderFeed runs: category *)
(* changes, tab switches and uploads each start a run while earlier runs    *)
(* are suspended in createPostCard                                          *)

MaxRenders == 2

Categories == {"", "house", "tower"}

\* the <p>No posts found.</p> element renderFeed writes for an empty list
Placeholder == "No posts found."

FeedPost(id, category, createdAt) ==
    [id |-> id, userId |-> "user_1", note |-> "a", images |-> <<>>,
     category |-> category, createdAt |-> createdAt]

\* the stored posts, oldest first as savePost appended them
FeedPosts == <<FeedPost("post_1", "house", 1), FeedPost("post_2", "tower", 2)>>

\* posts.filter(p => p.category === categoryFilter), skipped for the empty
\* value; the search box stays empty, so its filter is skipped too
matches(p, categoryFilter) == categoryFilter = "" \/ p.category = categoryFilter

\* one step of the stable sort by (a, b) => new Date(b.createdAt) - new Date(a.createdAt)
RECURSIVE insertNewest(_, _)
insertNewest(sorted, p) ==
    IF sorted = <<>> THEN <<p>>
    ELSE IF Head(sorted).createdAt >= p.createdAt
         THEN <<Head(sorted)>> \o insertNewest(Tail(sorted), p)
         ELSE <<p>> \o sorted

RECURSIVE sortNewestFirst(_)
sortNewestFirst(ps) ==
    IF ps = <<>> THEN <<>>
    ELSE insertNewest(sortNewestFirst(SubSeq(ps, 1, Len(ps) - 1)), ps[Len(ps)])

\* the list a renderFeed run works on: filtered, then sorted newest first
feedList(ps, categoryFilter) ==
    sortNewestFirst(SelectSeq(ps, LAMBDA p : matches(p, categoryFilter)))

\* the card createPostCard builds for a post
Card(post) == post.id

\* renderFeed up to its first await, on the stored posts ps: the container is
\* emptied; an empty list writes the placeholder and returns, otherwise the
\* run suspends in createPostCard with the whole list still to append
renderFeed(container, suspended, ps, categoryFilter) ==
    LET list == feedList(ps, categoryFilter)
    IN  IF list = <<>>
        THEN [feed |-> <<Placeholder>>, renders |-> suspended]
        ELSE [feed |-> <<>>, renders |-> Append(suspended, list)]

RenderFeed ==
    LET r == renderFeed(feed, renders, posts, filter)
    IN  /\ feed' = r.feed
        /\ renders' = r.renders

\* the 'change' event of the category select: renderFeed reads the new value
CategoryChange(c) ==
    /\ listening
    /\ Len(renders) < MaxRenders
    /\ filter' = c
    /\ LET r == renderFeed(feed, renders, posts, c)
       IN  /\ feed' = r.feed
           /\ renders' = r.renders

\* switchTab('feed') from the navigation bar
SwitchTabFeed ==
    /\ listening
    /\ Len(renders) < MaxRenders
    /\ RenderFeed
    /\ UNCHANGED filter

\* createPostCard settles in run k: the card is appended; the run goes on to
\* the next post or ends after the last
RenderFeedResume(k) ==
    LET run == renders[k]
    IN  /\ feed' = Append(feed, Card(Head(run)))
        /\ renders' = IF Len(run) = 1
                      THEN SubSeq(renders, 1, k - 1) \o SubSeq(renders, k + 1, Len(renders))
                      ELSE [renders EXCEPT ![k] = Tail(run)]
        /\ UNCHANGED filter

\* the end of handleUploadForm once the post is saved: renderFeed(), then
\* switchTab('feed'), which calls renderFeed() again; both run up to their
\* first await in the same task
UploadRenders ==
    IF nextPost' > nextPost
    THEN LET first == renderFeed(feed, renders, posts', filter)
             second == renderFeed(first.feed, first.renders, posts', filter)
         IN  /\ feed' = second.feed
             /\ renders' = second.renders
             /\ UNCHANGED filter
    ELSE UNCHANGED feedVars

\* the page after init's own renderFeed has finished
InitFeed ==
    /\ users = <<DefaultUser>>
    /\ posts = FeedPosts
    /\ comments = <<>>
    /\ likes = <<>>
    /\ session = DefaultUser
    /\ clock = 3
    /\ postLog = <<>>
    /\ userLog = <<>>
    /\ last = NULL
    /\ before = NULL
    /\ blobStore = EmptyStore
    /\ nextImage = 0
    /\ mig = [pc |-> "done"]
    /\ pass = NULL
    /\ currentUser = DefaultUser
    /\ listening = TRUE
    /\ uploads = <<>>
    /\ nextPost = 0
    /\ imageUrlCache = EmptyStore
    /\ liveUrls = {}
    /\ nextUrl = 0
    /\ calls = EmptyBag
    /\ urlHist = [revoked |-> {}, overlapped |-> {}, released |-> {}, returned |-> {},
                  cleared |-> {}, clearedBy |-> ""]
    /\ blobLog = EmptyStore
    /\ feed = <<"post_2", "post_1">>
    /\ renders = <<>>
    /\ filter = ""

FeedFrame ==
    UNCHANGED <<recVars, histVars, blobVars, migVars, upVars, cacheVars, blobLog>>

NextFeed ==
    \/ \E c \in Categories : CategoryChange(c) /\ FeedFrame
    \/ SwitchTabFeed /\ FeedFrame
    \/ \E k \in 1..Len(renders) : RenderFeedResume(k) /\ FeedFrame
    \/ renders = <<>> /\ UploadSubmit /\ UploadRecFrame /\ UploadRenders
    \/ renders = <<>> /\ UploadResume /\ UploadRecFrame /\ UploadRenders

SpecFeed == InitFeed /\ [][NextFeed]_vars

\* what the container shows for the stored posts ps under a category filter
shown(ps, categoryFilter) ==
    LET list == feedList(ps, categoryFilter)
    IN  IF list = <<>> THEN <<Placeholder>>
        ELSE [k \in 1..Len(list) |-> Card(list[k])]

\* C21: once every started renderFeed run has finished, the feed container
\* holds exactly one card per post matching the current filter, newest
\* first, none duplicated and none missing
C21_FeedOneCardPerPost ==
    renders = <<>> => feed = shown(posts, filter)

\* the upload of a post without files has ended and both of its renderFeed
\* runs have finished: every card is in the container twice
FeedDoubledAfterUpload ==
    /\ renders = <<>>
    /\ nextPost = 1
    /\ Len(posts) = 3
    /\ filter = ""
    /\ Len(feed) = 6
    /\ \A k \in 1..Len(posts) :
            Cardinality({j \in 1..Len(feed) : feed[j] = Card(posts[k])}) = 2

----------------------------------------------------------------------------
(* SpecUpload: submissions of the upload form, accepted and refused, their  *)
(* saveImageBlob puts, and handleClearImages between them                   *)

MaxSelected == 2    \* files selected for one upload under SpecUpload

\* if (!currentUser) return;  if (!buildingName || !date) return;
\* `filled`: the building name and the date are both non-empty
validates(user, filled) == user /= NULL /\ filled

\* history of an upload step: when it saved the post, the post, the files
\* that were selected, the successful puts and the Blob Store at that moment
UploadNote ==
    last' =
        IF nextPost' > nextPost
        THEN IF uploads' = uploads
             THEN [op |-> "uploaded", post |-> posts'[Len(posts')],
                   selected |-> <<>>, stored |-> <<>>,
                   store |-> blobStore', cleared |-> urlHist.cleared]
             ELSE LET k == CHOOSE k \in 1..Len(uploads) :
                                uploads' = SubSeq(uploads, 1, k - 1)
                                            \o SubSeq(uploads, k + 1, Len(uploads))
                      e == uploads[k]
                      stored == IF nextImage' > nextImage
                                THEN Append(e.stored, [file |-> Head(e.files),
                                                       id |-> ImageId(nextImage')])
                                ELSE e.stored
                  IN  [op |-> "uploaded", post |-> posts'[Len(posts')],
                       selected |-> e.selected, stored |-> stored,
                       store |-> blobStore', cleared |-> urlHist.cleared]
        ELSE [op |-> "uploading"]

\* a submission that passes the validation
UploadAccepted ==
    /\ \E filled \in BOOLEAN : validates(currentUser, filled)
    /\ \E n \in 0..MaxSelected : UploadSubmitFiles(n)
    /\ UploadNote

\* a submission without a logged-in user or with an empty required field:
\* the handler alerts and returns
UploadRefused ==
    /\ listening
    /\ \E filled \in BOOLEAN : ~validates(currentUser, filled)
    /\ last' = [op |-> "refused", posts |-> posts, store |-> blobStore,
                uploads |-> uploads, nextImage |-> nextImage]
    /\ UNCHANGED <<posts, blobVars, upVars>>

UploadStep == UploadResume /\ UploadNote

InitUpload ==
    /\ users = <<DefaultUser>>
    /\ posts = <<>>
    /\ comments = <<>>
    /\ likes = <<>>
    /\ session \in {NULL, DefaultUser}
    /\ clock = 0
    /\ postLog = <<>>
    /\ userLog = <<>>
    /\ last = NULL
    /\ before = NULL
    /\ blobStore = EmptyStore
    /\ nextImage = 0
    /\ mig = [pc |-> "done"]
    /\ pass = NULL
    /\ currentUser = session
    /\ listening = TRUE
    /\ uploads = <<>>
    /\ nextPost = 0
    /\ imageUrlCache = EmptyStore
    /\ liveUrls = {}
    /\ nextUrl = 0
    /\ calls = EmptyBag
    /\ urlHist = [revoked |-> {}, overlapped |-> {}, released |-> {}, returned |-> {},
                  cleared |-> {}, clearedBy |-> ""]
    /\ blobLog = EmptyStore
    /\ feed = <<>>
    /\ renders = <<>>
    /\ filter = ""

UploadNoteFrame ==
    UNCHANGED <<users, comments, likes, session, clock, postLog, userLog, before,
                migVars, cacheVars, blobLog, feedVars>>

NextUpload ==
    \/ UploadAccepted /\ UploadNoteFrame
    \/ UploadStep /\ UploadNoteFrame
    \/ UploadRefused /\ UploadNoteFrame
    \/ HandleClearImages /\ ClearFrame

SpecUpload == InitUpload /\ [][NextUpload]_vars

\* the last step saved the post of an upload
Uploaded == last /= NULL /\ last.op = "uploaded"

\* the position of a file among the selected files
position(file, selected) == CHOOSE i \in 1..Len(selected) : selected[i] = file

\* the saved post references exactly the identifiers the successful puts
\* returned, in the order of the selected files, and none is inline data
UploadedRefs ==
    LET images == last.post.images
        stored == last.stored
    IN  /\ images = [j \in 1..Len(stored) |-> stored[j].id]
        /\ \A j \in 1..Len(images) : isImageId(images[j]) /\ ~isInline(images[j])
        /\ \A j \in 1..Len(stored) :
                \E i \in 1..Len(last.selected) : last.selected[i] = stored[j].file
        /\ \A i, j \in 1..Len(stored) :
                i < j => position(stored[i].file, last.selected)
                            < position(stored[j].file, last.selected)
        /\ \E k \in 1..Len(posts) : posts[k] = last.post

\* the blob of the j-th reference is in the Blob Store when the post is saved
RefPresent(j) ==
    /\ last.post.images[j] \in DOMAIN last.store
    /\ j <= Len(last.stored)
    /\ last.store[last.post.images[j]] = last.stored[j].file

\* a refused submission created no post, stored no blob and started no put
RefusedNothing ==
    (last /= NULL /\ last.op = "refused") =>
        /\ posts = last.posts
        /\ blobStore = last.store
        /\ nextImage = last.nextImage
        /\ uploads = last.uploads

\* C22 as stated: a post created by handleUploadForm references, in
\* selected-file order, exactly the identifiers of the successful puts, none
\* inline, and every referenced blob is in the Blob Store at the moment the
\* post is saved; a refused submission creates no post and stores no blob
C22_UploadRefsPresent ==
    /\ Uploaded => /\ UploadedRefs
                   /\ \A j \in 1..Len(last.post.images) : RefPresent(j)
    /\ RefusedNothing

\* C22: the same, where a referenced blob is in the Blob Store at the moment
\* the post is saved unless handleClearImages cleared the store after the
\* blob's put, while the upload was still storing its other files
C22_UploadRefsPresentUnlessCleared ==
    /\ Uploaded => /\ UploadedRefs
                   /\ \A j \in 1..Len(last.post.images) :
                        RefPresent(j) \/ last.post.images[j] \in last.cleared
    /\ RefusedNothing

\* two files were selected, the put of the first failed: the post is saved
\* with the one identifier of the second file, whose blob is stored
C22_Witness ==
    /\ Uploaded
    /\ Len(last.selected) = 2
    /\ Len(last.post.images) = 1
    /\ last.post.images[1] \in DOMAIN last.store
    /\ last.store[last.post.images[1]] = last.selected[2]
    /\ \E k \in 1..Len(posts) : posts[k] = last.post

====
